---------------------------- MODULE Spec2Model ----------------------------
(***************************************************************************)
(* Circuit breaker and pipeline assembly of the tree-gateway API gateway.  *)
(*                                                                         *)
(* Sources:                                                                *)
(*   src/src/lib/circuitbreaker/express-circuit-breaker.ts                 *)
(*       lines   1-149  class CircuitBreaker                               *)
(*       lines 152-298  class ApiAuth                                      *)
(*   src/unnamed/part_000                                                  *)
(*       lines  68-233  class ApiCircuitBreaker                            *)
(*                                                                         *)
(* The StateHandler behind the breaker (RedisStateHandler), the group      *)
(* matcher (Groups.buildGroupAllowFilter) and the middleware loader are    *)
(* not part of the sources; they are modelled from the design document.    *)
(*                                                                         *)
(* JavaScript runs every callback to completion, so one action is one      *)
(* callback: the arrival of a request (it walks synchronously through all  *)
(* breaker stages of the router), the end of a response, the firing of a   *)
(* timer, the resolution of a promise.  Timers are not ordered by the      *)
(* model: timeout and resetTimeout are free configuration values.          *)
(***************************************************************************)
EXTENDS Naturals, Integers, Sequences, FiniteSets, Bags, TLC

(***************************************************************************)
(* Bounds of the model.                                                    *)
(***************************************************************************)
\* number of requests that can be in the gateway at the same time
NumReqs == 2
\* cap of the failure counter kept by the state store
MaxCount == 2
\* cap of the promises of incrementFailures() that are unresolved at a time
MaxPromises == 2
\* cap of the resetTimeout timers that are armed at the same time
MaxTimers == 2
\* the maxFailures option written in the breaker configs of the model
CfgMaxFailures == 2
\* longest list of config entries given to the sort functions
MaxLen == 3

(***************************************************************************)
(* Program constants.                                                      *)
(***************************************************************************)
\* part_000:113   maxFailures: (cbConfig.maxFailures || 10)
DefaultMaxFailures == 10
\* express-circuit-breaker.ts:103   if (res.statusCode >= 500)
ServerError == 500
\* express-circuit-breaker.ts:119   res.status(503)
StatusOpen == 503
\* express-circuit-breaker.ts:128   res.status(504)
StatusTimeout == 504
\* the largest status that line 103 does not count as a failure
StatusBelow500 == ServerError - 1
\* the status of a failed authentication (design document 6: typically 401)
StatusUnauthorized == 401

Reqs == 1..NumReqs
\* the names of the groups of the API (api.group)
GroupNames == {"g"}

VARIABLES
    \* ---- state store of the path (StateHandler) ----
    state,                \* "OPEN", "CLOSED", "HALF_OPEN"
    failures,             \* failure counter
    halfOpenCallPending,  \* StateHandler.halfOpenCallPending
    \* ---- event loop ----
    promises,             \* bag of unresolved incrementFailures() promises
    resetTimers,          \* number of armed setTimeout(forceHalfOpen, resetTimeout)
    \* ---- router ----
    breakerInfos,         \* the installed breaker stages, in order
    reqs,                 \* the requests in the gateway
    \* ---- observation of the last step ----
    last,
    \* ---- history: failures observed by each stage since the last success
    consecutive,
    \* ---- the authentication stages installed after the breaker stages
    authStages,
    \* ---- configuration ----
    apiConfig,            \* the ApiConfig of every API that is configured
    routers               \* what is installed on the router of every API

breakerVars == <<state, failures, halfOpenCallPending, promises, resetTimers,
                 breakerInfos, reqs, last, consecutive, authStages>>
configVars == <<apiConfig, routers>>
vars == <<breakerVars, configVars>>

(***************************************************************************)
(* Configuration entries.  An entry of api.circuitBreaker or of            *)
(* api.authentication is an object; `group` is absent (defined = FALSE) or *)
(* an array of group names, and an empty array is truthy in JavaScript.    *)
(* isArray marks a value that is not a config object but an array holding  *)
(* one: every config field read from it is undefined.                      *)
(***************************************************************************)
Undefined == [defined |-> FALSE, names |-> {}]
GroupOf(names) == [defined |-> TRUE, names |-> names]

\* a CircuitBreakerConfig
Entry(id, group, maxFailures) ==
    [isArray |-> FALSE, id |-> id, group |-> group, maxFailures |-> maxFailures]

\* an ApiAuthenticationConfig; strategy and use are "" when absent
AuthEntry(id, group, strategy, use) ==
    [isArray |-> FALSE, id |-> id, group |-> group, strategy |-> strategy,
     use |-> use]

\* value.group, cbConfig.group, authentication.group
group(value) == IF value.isArray THEN Undefined ELSE value.group

\* cbConfig.maxFailures; 0 stands for an absent field (both are falsy)
maxFailures(value) == IF value.isArray THEN 0 ELSE value.maxFailures

\* if (value.group)
Truthy(g) == g.defined

\* Array.prototype.indexOf, 0-based, -1 when absent
indexOf(list, x) ==
    IF \E i \in 1..Len(list) : list[i] = x
    THEN (CHOOSE i \in 1..Len(list) :
             list[i] = x /\ \A j \in 1..(i - 1) : list[j] # x) - 1
    ELSE -1

\* list.splice(index, 1): what is left of the list (index is 0-based)
spliceRest(list, index) ==
    SubSeq(list, 1, index) \o SubSeq(list, index + 2, Len(list))

\* list.splice(index, 1): the array of the removed elements
spliceRemoved(list, index) == <<list[index + 1]>>

\* an array pushed as one element of a list of config objects
ArrayOf(removed) == [removed[1] EXCEPT !.isArray = TRUE]

\* the config object that a value of a list is or holds
configured(value) == [value EXCEPT !.isArray = FALSE]

(***************************************************************************)
(* ApiCircuitBreaker.sortBreakers, part_000:194-215; _.filter is SelectSeq *)
(***************************************************************************)
generalBreakersFilter(value) == IF Truthy(group(value)) THEN TRUE ELSE FALSE

sortBreakers(breakers) ==
    LET generalBreakers == SelectSeq(breakers, generalBreakersFilter)
    IN  IF Len(generalBreakers) > 1 THEN <<>>
        ELSE IF Len(generalBreakers) > 0
        THEN LET index == indexOf(breakers, generalBreakers[1])
             IN  IF index < Len(breakers) - 1
                 THEN LET gen == spliceRemoved(breakers, index)
                      IN  Append(spliceRest(breakers, index), ArrayOf(gen))
                 ELSE breakers
        ELSE breakers

(***************************************************************************)
(* ApiAuth.sortMiddlewares, express-circuit-breaker.ts:276-297             *)
(***************************************************************************)
generalMiddlewaresFilter(value) == IF Truthy(group(value)) THEN FALSE ELSE TRUE

sortMiddlewares(middlewares) ==
    LET generalMiddlewares == SelectSeq(middlewares, generalMiddlewaresFilter)
    IN  IF Len(generalMiddlewares) > 1 THEN <<>>
        ELSE IF Len(generalMiddlewares) > 0
        THEN LET index == indexOf(middlewares, generalMiddlewares[1])
             IN  IF index < Len(middlewares) - 1
                 THEN LET gen == spliceRemoved(middlewares, index)
                      IN  Append(spliceRest(middlewares, index), gen[1])
                 ELSE middlewares
        ELSE middlewares

(***************************************************************************)
(* Groups.buildGroupAllowFilter (design document 4.3): the compiled filter *)
(* accepts a request iff one of the named groups matches it.  A request is *)
(* given by the set of groups of the API whose predicates it satisfies.    *)
(***************************************************************************)
buildGroupAllowFilter(names, reqGroups) == names \cap reqGroups # {}

(***************************************************************************)
(* ApiCircuitBreaker.circuitBreaker, part_000:103-132: one BreakerInfo per *)
(* sorted config; every instance is built on the state of the same path.   *)
(***************************************************************************)
BreakerInfo(cbConfig) ==
    [maxFailures |-> IF maxFailures(cbConfig) # 0 THEN maxFailures(cbConfig)
                     ELSE DefaultMaxFailures,
     groupValidator |-> IF Truthy(group(cbConfig)) THEN group(cbConfig)
                        ELSE Undefined,
     config |-> cbConfig]

circuitBreaker(breakers) ==
    LET sortedBreakers == sortBreakers(breakers)
    IN  [i \in 1..Len(sortedBreakers) |-> BreakerInfo(sortedBreakers[i])]

(***************************************************************************)
(* MiddlewareLoader.loadMiddleware('authentication/strategy', reference)   *)
(* (design document 4.2): a known name gives a handler, an unknown name a  *)
(* loader error.  "broken" names a plug-in that loads to nothing.          *)
(***************************************************************************)
KnownStrategies == {"jwt"}

loadMiddleware(strategy) ==
    IF strategy \in KnownStrategies THEN [thrown |-> FALSE, loaded |-> TRUE]
    ELSE IF strategy = "broken" THEN [thrown |-> FALSE, loaded |-> FALSE]
    ELSE [thrown |-> TRUE, loaded |-> FALSE]

(***************************************************************************)
(* ApiAuth.resolveReferences, express-circuit-breaker.ts:202-211.          *)
(* pipelineAuthentication is pipelineConfig.authentication: defined or     *)
(* not, and the dictionary of the shared entries.                          *)
(***************************************************************************)
\* _.defaults(authentication, reference): the fields that are undefined in
\* authentication are filled from the reference
defaults(authentication, reference) ==
    [authentication EXCEPT
        !.strategy = IF @ = "" THEN reference.strategy ELSE @,
        !.group = IF ~@.defined THEN reference.group ELSE @]

resolveReferences(authentication, pipelineAuthentication) ==
    IF authentication.use # "" /\ pipelineAuthentication.defined
    THEN IF authentication.use \in DOMAIN pipelineAuthentication.dict
         THEN [thrown |-> FALSE,
               value |-> defaults(authentication,
                                  pipelineAuthentication.dict[authentication.use])]
         ELSE [thrown |-> TRUE, value |-> authentication]
    ELSE [thrown |-> FALSE, value |-> authentication]

(***************************************************************************)
(* ApiAuth.authentication, express-circuit-breaker.ts:172-200: the stages  *)
(* installed on the router of the API, in order.  index is the 0-based     *)
(* index of forEach.  A stage is the authenticator registered under        *)
(* apiKey_index, with the group filter of createAuthenticatorForGroup      *)
(* (lines 237-274) when the entry has a group, and with the request log    *)
(* when isRequestLogEnabled(api).                                          *)
(***************************************************************************)
authenticationStage(apiKey, index, authentication, pipelineAuthentication, logged) ==
    LET resolved == resolveReferences(authentication, pipelineAuthentication)
    IN  IF resolved.thrown THEN <<>>
        ELSE LET authStrategy == loadMiddleware(resolved.value.strategy)
             IN  IF authStrategy.thrown THEN <<>>
                 ELSE IF ~authStrategy.loaded THEN <<>>
                 ELSE <<[key |-> <<apiKey, index>>,
                         config |-> resolved.value,
                         groupFilter |-> IF Truthy(group(resolved.value))
                                         THEN group(resolved.value)
                                         ELSE Undefined,
                         logged |-> logged]>>

\* mutant of authenticationFrom: the first entry that cannot be installed
\* ends the assembly
authenticationFrom_AbortOnFailure(apiKey, index, authentications, pipelineAuthentication, logged) ==
    LET InstalledAt(i) ==
            authenticationStage(apiKey, i, authentications[i + 1],
                                pipelineAuthentication, logged)
        Reachable(i) == \A j \in index..(i - 1) : InstalledAt(j) # <<>>
        Kept == {i \in index..(Len(authentications) - 1) :
                    Reachable(i) /\ InstalledAt(i) # <<>>}
    IN  [k \in 1..Cardinality(Kept) |-> InstalledAt(index + k - 1)[1]]

RECURSIVE authenticationFrom(_, _, _, _, _)
authenticationFrom(apiKey, index, authentications, pipelineAuthentication, logged) ==
    IF index >= Len(authentications) THEN <<>>
    ELSE authenticationStage(apiKey, index, authentications[index + 1],
                             pipelineAuthentication, logged)
         \o authenticationFrom(apiKey, index + 1, authentications,
                               pipelineAuthentication, logged)

authentication(apiKey, middlewares, pipelineAuthentication, logged) ==
    authenticationFrom(apiKey, 0, sortMiddlewares(middlewares),
                       pipelineAuthentication, logged)

(***************************************************************************)
(* The shared state a callback works on, as one record: the state store,   *)
(* the event loop, and what the callback did so far: the events emitted,   *)
(* the timers of the request cleared, the outcomes recorded.  fromProbe    *)
(* tells whether the callback handles the probe of a HALF_OPEN breaker.    *)
(***************************************************************************)
WorldOf(fromProbe) ==
    [state |-> state, failures |-> failures,
     halfOpenCallPending |-> halfOpenCallPending,
     promises |-> promises, resetTimers |-> resetTimers,
     consecutive |-> consecutive,
     emitted |-> {}, events |-> <<>>, cleared |-> {},
     nFailure |-> 0, nSuccess |-> 0,
     fromProbe |-> fromProbe]

World == WorldOf(FALSE)

Min(a, b) == IF a < b THEN a ELSE b

(***************************************************************************)
(* StateHandler (interface at express-circuit-breaker.ts:15-24; behaviour  *)
(* from the design document 4.1 and 4.4: a force operation short-circuits  *)
(* when the state is already its target and otherwise sets it; closing     *)
(* clears the failure counter and the pending flag, half-opening clears    *)
(* the pending flag).  Each returns [ok, w].                               *)
(***************************************************************************)
stateHandler_isOpen(w) == w.state = "OPEN"
stateHandler_isHalfOpen(w) == w.state = "HALF_OPEN"
stateHandler_isClosed(w) == w.state = "CLOSED"

stateHandler_forceOpen(w) ==
    IF w.state = "OPEN" THEN [ok |-> FALSE, w |-> w]
    ELSE [ok |-> TRUE, w |-> [w EXCEPT !.state = "OPEN"]]

stateHandler_forceClose(w) ==
    IF w.state = "CLOSED"
    THEN [ok |-> FALSE, w |-> [w EXCEPT !.failures = 0]]
    ELSE [ok |-> TRUE,
          w |-> [w EXCEPT !.state = "CLOSED", !.failures = 0,
                          !.halfOpenCallPending = FALSE]]

stateHandler_forceHalfOpen(w) ==
    IF w.state = "HALF_OPEN" THEN [ok |-> FALSE, w |-> w]
    ELSE [ok |-> TRUE,
          w |-> [w EXCEPT !.state = "HALF_OPEN", !.halfOpenCallPending = FALSE]]

\* incrementFailures(): the request to the store is sent; the promise is
\* resolved later, by IncrementReply and ThenCallback.  The closure of
\* .then() holds the breaker instance (its stage).  probe is history: the
\* failure is the one of the probe, observed while HALF_OPEN.
stateHandler_incrementFailures(w, stage) ==
    [w EXCEPT !.promises = @ (+) SetToBag({
        [st |-> "sent", n |-> 0, stage |-> stage,
         probe |-> w.fromProbe /\ w.state = "HALF_OPEN"]})]

(***************************************************************************)
(* class CircuitBreaker, express-circuit-breaker.ts:26-149                 *)
(***************************************************************************)
emit(w, event) ==
    [w EXCEPT !.emitted = @ \cup {event}, !.events = Append(@, event)]

\* lines 54-56: setTimeout(function () { self.forceHalfOpen(); }, resetTimeout)
armResetTimeout(w) == [w EXCEPT !.resetTimers = @ + 1]

\* mutant of forceOpen: the answer of the store is not looked at
forceOpen_Always(w) ==
    emit(armResetTimeout(stateHandler_forceOpen(w).w), "open")

\* lines 47-59
forceOpen(w) ==
    LET r == stateHandler_forceOpen(w)
    IN  IF ~r.ok THEN r.w ELSE emit(armResetTimeout(r.w), "open")

\* mutant of forceClosed: 'close' is emitted whatever the store answers
forceClosed_AlwaysEmit(w) == emit(stateHandler_forceClose(w).w, "close")

\* lines 61-66
forceClosed(w) ==
    LET r == stateHandler_forceClose(w)
    IN  IF ~r.ok THEN r.w ELSE emit(r.w, "close")

\* lines 68-73
forceHalfOpen(w) ==
    LET r == stateHandler_forceHalfOpen(w)
    IN  IF ~r.ok THEN r.w ELSE emit(r.w, "halfOpen")

\* mutant of handleSuccess: the success is recorded, the breaker not closed
handleSuccess_NoClose(w) ==
    [w EXCEPT !.nSuccess = @ + 1, !.consecutive = [k \in DOMAIN @ |-> 0]]

\* lines 133-137; the history of consecutive failures starts again
handleSuccess(w) ==
    [forceClosed(w) EXCEPT !.nSuccess = @ + 1,
                           !.consecutive = [k \in DOMAIN @ |-> 0]]

\* lines 139-148, up to the call of incrementFailures(); the .then() part
\* is thenNumFailures.  The history counts the observation, up to MaxCount.
handleFailure(w, stage) ==
    [stateHandler_incrementFailures(w, stage) EXCEPT
        !.nFailure = @ + 1,
        !.consecutive[stage] = Min(@ + 1, MaxCount)]

\* mutant of mustOpen: the threshold is compared with > instead of >=
mustOpen_Strict(w, numFailures, max) ==
    stateHandler_isHalfOpen(w) \/ numFailures > max

\* line 142: if (this.isHalfOpen() || numFailures >= this.options.maxFailures)
mustOpen(w, numFailures, max) ==
    stateHandler_isHalfOpen(w) \/ numFailures >= max

\* lines 141-145: numFailures => { ... }
thenNumFailures(w, numFailures, max) ==
    IF mustOpen(w, numFailures, max) THEN forceOpen(w) ELSE w

\* line 103: if (res.statusCode >= 500)
isFailureStatus(statusCode) == statusCode >= ServerError

\* mutant of observesEnd: the wrapper does not test operationTimeout
observesEnd_Always(stage, timedOut) == TRUE

\* line 101: if (!operationTimeout), for the wrapper installed by `stage`
\* when the timers of the stages in timedOut have fired
observesEnd(stage, timedOut) == stage \notin timedOut

\* line 102: clearTimeout(timeoutID), the timer armed by `stage`
clearTimeout(w, stage) == [w EXCEPT !.cleared = @ \cup {stage}]

\* lines 100-113: res.end as patched by the stages of `chain` (the last
\* patch is called first; each restores the res.end it replaced and calls it)
RECURSIVE resEnd(_, _, _, _)
resEnd(chain, timedOut, statusCode, w) ==
    IF chain = <<>> THEN w
    ELSE LET stage == chain[Len(chain)]
             w1 == IF ~observesEnd(stage, timedOut) THEN w
                   ELSE IF isFailureStatus(statusCode)
                        THEN handleFailure(
                                 [clearTimeout(w, stage) EXCEPT
                                     !.halfOpenCallPending = FALSE], stage)
                        ELSE handleSuccess(clearTimeout(w, stage))
         IN  resEnd(SubSeq(chain, 1, Len(chain) - 1), timedOut, statusCode, w1)

\* lines 95-98 and 125-131: the timer armed by `stage` fires; chain is what
\* res.end is patched with at that time
handleTimeout(chain, stage, w) ==
    resEnd(chain, {stage}, StatusTimeout, handleFailure(w, stage))

\* mutant of isRejecting: the test of isOpen() is dropped
isRejecting_PendingOnly(w) ==
    stateHandler_isHalfOpen(w) /\ w.halfOpenCallPending

\* line 79: the condition of the fast fail
isRejecting(w) ==
    stateHandler_isOpen(w) \/ (stateHandler_isHalfOpen(w) /\ w.halfOpenCallPending)

(***************************************************************************)
(* The walk of one request through the router.  acc is                     *)
(*   w          the world so far                                           *)
(*   chain      the stages whose invokeApi patched res.end, in order       *)
(*   timers     the stages whose invokeApi armed a timer that is not       *)
(*              cleared                                                    *)
(*   statusCode the status of the response once it is ended, else 0        *)
(*   body       the body the response is ended with                        *)
(*   downstream whether the handler after the breaker stages was reached   *)
(*   probe      whether this request set halfOpenCallPending               *)
(*   ran        the stages whose breaker middleware was run                *)
(*   nexts      the stages that called next(), in order                    *)
(***************************************************************************)
RECURSIVE apiRouter(_, _, _)

\* line 115: return next()
next(i, reqGroups, acc) ==
    apiRouter(i + 1, reqGroups, [acc EXCEPT !.nexts = Append(@, i)])

\* lines 92-116
invokeApi(i, reqGroups, acc) ==
    next(i, reqGroups, [acc EXCEPT !.chain = Append(@, i), !.timers = @ \cup {i}])

\* lines 118-123
fastFail(acc) ==
    LET w == emit(resEnd(acc.chain, {}, StatusOpen, acc.w), "rejected")
    IN  [acc EXCEPT !.statusCode = StatusOpen,
                    !.body = "CircuitBreaker open",
                    !.chain = <<>>,
                    !.timers = @ \ w.cleared,
                    !.w = w]

\* lines 75-90
middleware(i, reqGroups, acc) ==
    LET a == [acc EXCEPT !.ran = @ \cup {i}]
    IN  IF isRejecting(a.w) THEN fastFail(a)
        ELSE IF stateHandler_isHalfOpen(a.w) /\ ~a.w.halfOpenCallPending
        THEN invokeApi(i, reqGroups,
                       [a EXCEPT !.w.halfOpenCallPending = TRUE, !.probe = TRUE])
        ELSE invokeApi(i, reqGroups, a)

\* part_000:180-190: whether the stage hands the request to its breaker
stageApplies(breakerInfo, reqGroups) ==
    IF Truthy(breakerInfo.groupValidator)
    THEN buildGroupAllowFilter(breakerInfo.groupValidator.names, reqGroups)
    ELSE TRUE

\* part_000:176-192
buildMiddleware(i, reqGroups, acc) ==
    IF stageApplies(breakerInfos[i], reqGroups)
    THEN middleware(i, reqGroups, acc)
    ELSE next(i, reqGroups, acc)

\* part_000:170-174: the stages are installed with apiRouter.use, in order
apiRouter(i, reqGroups, acc) ==
    IF i > Len(breakerInfos) THEN [acc EXCEPT !.downstream = TRUE]
    ELSE buildMiddleware(i, reqGroups, acc)

(***************************************************************************)
(* The breaker at run time.  A request is                                  *)
(*   idle      not in the gateway                                          *)
(*   inflight  handed to the downstream handler, its response not ended    *)
(*   timedout  its response ended by the breaker (504), the downstream     *)
(*             handler still at work                                       *)
(*   ended     its response ended by the downstream handler while a timer  *)
(*             of the request is still armed                               *)
(***************************************************************************)
\* the walk of a request through the authentication stages: the stage it is
\* at (0: not in the walk), its groups and its requestLog.authentication
NoAuth == [index |-> 0, reqGroups |-> {}, log |-> ""]

Idle == [phase |-> "idle", chain |-> <<>>, timers |-> {}, probe |-> FALSE,
         auth |-> NoAuth]

\* the response of the request has ended; timers that are still armed stay
Ended(r, timers) ==
    IF timers = {} THEN Idle
    ELSE [phase |-> "ended", chain |-> <<>>, timers |-> timers,
          probe |-> reqs[r].probe, auth |-> NoAuth]

\* what a callback leaves in the store and in the event loop
Commit(w) ==
    /\ BagCardinality(w.promises) <= MaxPromises
    /\ w.resetTimers <= MaxTimers
    /\ state' = w.state
    /\ failures' = w.failures
    /\ halfOpenCallPending' = w.halfOpenCallPending
    /\ promises' = w.promises
    /\ resetTimers' = w.resetTimers
    /\ consecutive' = w.consecutive

\* what the last step did
Observation(op, r, x, w) ==
    [op |-> op, r |-> r, before |-> state, pendingBefore |-> halfOpenCallPending,
     timersBefore |-> resetTimers, failuresBefore |-> failures,
     x |-> x,
     emitted |-> w.emitted, events |-> w.events,
     nFailure |-> w.nFailure, nSuccess |-> w.nSuccess]

NoDetail == [none |-> TRUE]

\* the breaker configs of the API the run-time model is built on
cbDefault == Entry(0, Undefined, CfgMaxFailures)
cbGroup == Entry(1, GroupOf({"g"}), CfgMaxFailures)
RuntimeConfigs == {<<cbDefault>>, <<cbGroup, cbDefault>>, <<cbDefault, cbGroup>>}

\* constructor (lines 29-33) of every instance after circuitBreaker():
\* the store of the path is CLOSED with no failure, forceClosed() changes nothing
BreakerInit(configs) ==
    /\ state = "CLOSED"
    /\ failures = 0
    /\ halfOpenCallPending = FALSE
    /\ promises = EmptyBag
    /\ resetTimers = 0
    /\ breakerInfos \in {circuitBreaker(c) : c \in configs}
    /\ reqs = [r \in Reqs |-> Idle]
    /\ consecutive = [k \in DOMAIN breakerInfos |-> 0]
    /\ last = Observation("init", 0, NoDetail, World)

\* no API is being configured while the breaker runs
ConfigIdle ==
    /\ apiConfig = <<>>
    /\ routers = <<>>

\* an API with breakers and no authentication
Init == BreakerInit(RuntimeConfigs) /\ authStages = <<>> /\ ConfigIdle

\* a request arrives at the router of the API and is routed through the
\* breaker stages; it is then answered (fast fail) or in flight downstream.
\* Requests are interchangeable: the new one is numbered with the lowest
\* number that is free.
Arrive(r, reqGroups) ==
    /\ reqs[r].phase = "idle"
    /\ \A q \in 1..(r - 1) : reqs[q].phase # "idle"
    /\ LET acc == apiRouter(1, reqGroups,
                     [w |-> World, chain |-> <<>>, timers |-> {}, statusCode |-> 0,
                      body |-> "", downstream |-> FALSE, probe |-> FALSE,
                      ran |-> {}, nexts |-> <<>>])
       IN  /\ Commit(acc.w)
           /\ reqs' = [reqs EXCEPT ![r] =
                         IF acc.downstream
                         THEN [phase |-> "inflight", chain |-> acc.chain,
                               timers |-> acc.timers, probe |-> acc.probe,
                               auth |-> IF authStages = <<>> THEN NoAuth
                                        ELSE [index |-> 1, reqGroups |-> reqGroups,
                                              log |-> ""]]
                         ELSE IF acc.timers = {} THEN Idle
                         ELSE [phase |-> "ended", chain |-> <<>>,
                               timers |-> acc.timers, probe |-> acc.probe,
                               auth |-> NoAuth]]
           /\ last' = Observation("arrive", r,
                         [reqGroups |-> reqGroups, statusCode |-> acc.statusCode,
                          body |-> acc.body, downstream |-> acc.downstream,
                          probe |-> acc.probe, ran |-> acc.ran, nexts |-> acc.nexts,
                          chain |-> acc.chain], acc.w)
    /\ UNCHANGED <<breakerInfos, authStages>>

\* the downstream handler ends the response of a request in flight
RespondEnd(r, statusCode) ==
    /\ reqs[r].phase = "inflight"
    /\ reqs[r].auth.index = 0
    /\ LET w == resEnd(reqs[r].chain, {}, statusCode, WorldOf(reqs[r].probe))
           timers == reqs[r].timers \ w.cleared
       IN  /\ Commit(w)
           /\ reqs' = [reqs EXCEPT ![r] = Ended(r, timers)]
           /\ last' = Observation("end", r,
                         [statusCode |-> statusCode, probe |-> reqs[r].probe,
                          chain |-> reqs[r].chain], w)
    /\ UNCHANGED <<breakerInfos, authStages>>

\* the timer armed by `stage` for the request fires (lines 95-98)
OperationTimeout(r, stage) ==
    /\ stage \in reqs[r].timers
    /\ LET w == handleTimeout(reqs[r].chain, stage, WorldOf(reqs[r].probe))
           timers == (reqs[r].timers \ {stage}) \ w.cleared
           phase == IF reqs[r].phase = "inflight" THEN "timedout" ELSE reqs[r].phase
       IN  /\ Commit(w)
           /\ reqs' = [reqs EXCEPT ![r] =
                         IF phase \in {"ended", "disconnected"} /\ timers = {}
                         THEN Idle
                         ELSE [phase |-> phase, chain |-> <<>>,
                               timers |-> timers, probe |-> reqs[r].probe,
                               auth |-> reqs[r].auth]]
           /\ last' = Observation("timeout", r,
                         [statusCode |-> IF reqs[r].phase = "inflight"
                                         THEN StatusTimeout ELSE 0,
                          body |-> IF reqs[r].phase = "inflight"
                                   THEN "CircuitBreaker timeout" ELSE "",
                          probe |-> reqs[r].probe,
                          phase |-> reqs[r].phase,
                          chain |-> reqs[r].chain], w)
    /\ UNCHANGED <<breakerInfos, authStages>>

\* the downstream handler ends a response the breaker has ended with 504:
\* res.end is what the wrappers left of it (line 111 restores the original)
LateEnd(r, statusCode) ==
    /\ reqs[r].phase = "timedout"
    /\ reqs[r].auth.index = 0
    /\ LET w == resEnd(reqs[r].chain, {}, statusCode, WorldOf(reqs[r].probe))
           timers == reqs[r].timers \ w.cleared
       IN  /\ Commit(w)
           /\ reqs' = [reqs EXCEPT ![r] = Ended(r, timers)]
           /\ last' = Observation("lateEnd", r, NoDetail, w)
    /\ UNCHANGED <<breakerInfos, authStages>>

\* the store executes an increment and answers with the new count
IncrementReply(p) ==
    /\ BagIn(p, promises)
    /\ p.st = "sent"
    /\ failures < MaxCount
    /\ failures' = failures + 1
    /\ promises' = (promises (-) SetToBag({p}))
                     (+) SetToBag({[p EXCEPT !.st = "replied", !.n = failures + 1]})
    /\ last' = Observation("reply", 0, NoDetail, World)
    /\ UNCHANGED <<state, halfOpenCallPending, resetTimers, breakerInfos, reqs,
                   consecutive, authStages>>

\* the promise of incrementFailures() is resolved: the .then() callback runs
ThenCallback(p) ==
    /\ BagIn(p, promises)
    /\ p.st = "replied"
    /\ LET w0 == [World EXCEPT !.promises = @ (-) SetToBag({p})]
           w == thenNumFailures(w0, p.n, breakerInfos[p.stage].maxFailures)
       IN  /\ Commit(w)
           /\ last' = Observation("then", 0, [p |-> p], w)
    /\ UNCHANGED <<breakerInfos, reqs, authStages>>

\* a timer armed by forceOpen fires (lines 54-56)
ResetTimeout ==
    /\ resetTimers > 0
    /\ LET w == forceHalfOpen([World EXCEPT !.resetTimers = @ - 1])
       IN  /\ Commit(w)
           /\ last' = Observation("reset", 0, NoDetail, w)
    /\ UNCHANGED <<breakerInfos, reqs, authStages>>

Next ==
    \/ \E r \in Reqs, reqGroups \in SUBSET GroupNames :
          Arrive(r, reqGroups) /\ UNCHANGED configVars
    \/ \E r \in Reqs, statusCode \in {StatusBelow500, ServerError} :
          RespondEnd(r, statusCode) /\ UNCHANGED configVars
    \/ \E r \in Reqs, stage \in DOMAIN breakerInfos :
          OperationTimeout(r, stage) /\ UNCHANGED configVars
    \/ \E r \in Reqs, statusCode \in {StatusBelow500, ServerError} :
          LateEnd(r, statusCode) /\ UNCHANGED configVars
    \/ \E p \in BagToSet(promises) : IncrementReply(p) /\ UNCHANGED configVars
    \/ \E p \in BagToSet(promises) : ThenCallback(p) /\ UNCHANGED configVars
    \/ ResetTimeout /\ UNCHANGED configVars

Spec == Init /\ [][Next]_vars

(***************************************************************************)
(* The pipeline of an API with breaker stages and authentication stages    *)
(* (design document 4.6: the breaker stages come first).  A request that   *)
(* the breaker stages forwarded walks the authentication stages one by     *)
(* one, an authenticator may do I/O; the timers of the breakers run        *)
(* meanwhile.  One request at a time walks the pipeline.                   *)
(***************************************************************************)
\* express-circuit-breaker.ts:245 and 264: if (f(req, res)); a stage made by
\* createAuthenticator (lines 213-235) has no filter
authStageApplies(authStage, reqGroups) ==
    IF Truthy(authStage.groupFilter)
    THEN buildGroupAllowFilter(authStage.groupFilter.names, reqGroups)
    ELSE TRUE

\* lines 218-231 and 246-259: what the callback of the authenticator leaves
\* in requestLog.authentication
requestLogAuthentication(authStage, err, log) ==
    IF authStage.logged THEN (IF err THEN "fail" ELSE "success") ELSE log

\* the request is handed to the stage after index, or to the proxy
nextAuth(auth, log) ==
    IF auth.index = Len(authStages) THEN NoAuth
    ELSE [auth EXCEPT !.index = @ + 1, !.log = log]

\* the stage the request is at handles it; ok is the verdict of the strategy
AuthStage(r, ok) ==
    /\ reqs[r].auth.index > 0
    /\ LET auth == reqs[r].auth
           authStage == authStages[auth.index]
           applies == authStageApplies(authStage, auth.reqGroups)
           log == requestLogAuthentication(authStage, ~ok, auth.log)
       IN  IF ~applies
           THEN \* next()
                /\ ok
                /\ Commit(World)
                /\ reqs' = [reqs EXCEPT ![r].auth = nextAuth(auth, auth.log)]
                /\ last' = Observation("auth", r,
                              [index |-> auth.index, reqGroups |-> auth.reqGroups,
                               ran |-> FALSE, nexts |-> 1, err |-> FALSE,
                               logBefore |-> auth.log, log |-> auth.log,
                               ended |-> FALSE], World)
           ELSE IF ok
           THEN \* the authenticator calls back without an error: next()
                /\ Commit(World)
                /\ reqs' = [reqs EXCEPT ![r].auth = nextAuth(auth, log)]
                /\ last' = Observation("auth", r,
                              [index |-> auth.index, reqGroups |-> auth.reqGroups,
                               ran |-> TRUE, nexts |-> 1, err |-> FALSE,
                               logBefore |-> auth.log, log |-> log,
                               ended |-> FALSE], World)
           ELSE \* failWithError: next(err), the error ends the response
                LET w == resEnd(reqs[r].chain, {}, StatusUnauthorized,
                                WorldOf(reqs[r].probe))
                IN  /\ Commit(w)
                    /\ reqs' = [reqs EXCEPT ![r] =
                                  Ended(r, reqs[r].timers \ w.cleared)]
                    /\ last' = Observation("auth", r,
                                  [index |-> auth.index,
                                   reqGroups |-> auth.reqGroups,
                                   ran |-> TRUE, nexts |-> 1, err |-> TRUE,
                                   logBefore |-> auth.log, log |-> log,
                                   ended |-> TRUE], w)
    /\ UNCHANGED <<breakerInfos, authStages>>

PipelineArrive(r, reqGroups) ==
    /\ \A q \in Reqs : reqs[q].phase = "idle"
    /\ Arrive(r, reqGroups)

\* the configs of the API the pipeline is built from
authDefault == AuthEntry(0, Undefined, "jwt", "")
authGroup == AuthEntry(1, GroupOf({"g"}), "jwt", "")
NoPipelineAuthentication == [defined |-> FALSE, dict |-> <<>>]
PipelineBreakers == RuntimeConfigs \cup {<<cbGroup>>}
PipelineAuthentications ==
    {<<authDefault>>, <<authGroup>>, <<authDefault, authGroup>>}

PipelineInit ==
    /\ BreakerInit(PipelineBreakers)
    /\ authStages \in {authentication("api", c, NoPipelineAuthentication, logged) :
                          c \in PipelineAuthentications, logged \in BOOLEAN}
    /\ ConfigIdle

PipelineNext ==
    \/ \E r \in Reqs, reqGroups \in SUBSET GroupNames :
          PipelineArrive(r, reqGroups) /\ UNCHANGED configVars
    \/ \E r \in Reqs, ok \in BOOLEAN : AuthStage(r, ok) /\ UNCHANGED configVars
    \/ \E r \in Reqs, statusCode \in {StatusBelow500, ServerError} :
          RespondEnd(r, statusCode) /\ UNCHANGED configVars
    \/ \E r \in Reqs, stage \in DOMAIN breakerInfos :
          OperationTimeout(r, stage) /\ UNCHANGED configVars
    \/ \E r \in Reqs, statusCode \in {StatusBelow500, ServerError} :
          LateEnd(r, statusCode) /\ UNCHANGED configVars
    \/ \E p \in BagToSet(promises) : IncrementReply(p) /\ UNCHANGED configVars
    \/ \E p \in BagToSet(promises) : ThenCallback(p) /\ UNCHANGED configVars
    \/ ResetTimeout /\ UNCHANGED configVars

PipelineSpec == PipelineInit /\ [][PipelineNext]_vars

(***************************************************************************)
(* The public operations forceOpen, forceClosed and forceHalfOpen of a     *)
(* breaker instance, called at any time while the breaker handles one      *)
(* request at a time.                                                      *)
(***************************************************************************)
ForceOpen ==
    /\ LET w == forceOpen(World)
       IN  Commit(w) /\ last' = Observation("forceOpen", 0, NoDetail, w)
    /\ UNCHANGED <<breakerInfos, reqs, authStages>>

ForceClosed ==
    /\ LET w == forceClosed(World)
       IN  Commit(w) /\ last' = Observation("forceClosed", 0, NoDetail, w)
    /\ UNCHANGED <<breakerInfos, reqs, authStages>>

ForceHalfOpen ==
    /\ LET w == forceHalfOpen(World)
       IN  Commit(w) /\ last' = Observation("forceHalfOpen", 0, NoDetail, w)
    /\ UNCHANGED <<breakerInfos, reqs, authStages>>

ForceInit == BreakerInit({<<cbDefault>>}) /\ authStages = <<>> /\ ConfigIdle

ForceNext ==
    \/ ForceOpen /\ UNCHANGED configVars
    \/ ForceClosed /\ UNCHANGED configVars
    \/ ForceHalfOpen /\ UNCHANGED configVars
    \/ \E r \in Reqs, reqGroups \in SUBSET GroupNames :
          PipelineArrive(r, reqGroups) /\ UNCHANGED configVars
    \/ \E r \in Reqs, statusCode \in {StatusBelow500, ServerError} :
          RespondEnd(r, statusCode) /\ UNCHANGED configVars
    \/ \E r \in Reqs, stage \in DOMAIN breakerInfos :
          OperationTimeout(r, stage) /\ UNCHANGED configVars
    \/ \E r \in Reqs, statusCode \in {StatusBelow500, ServerError} :
          LateEnd(r, statusCode) /\ UNCHANGED configVars
    \/ \E p \in BagToSet(promises) : IncrementReply(p) /\ UNCHANGED configVars
    \/ \E p \in BagToSet(promises) : ThenCallback(p) /\ UNCHANGED configVars
    \/ ResetTimeout /\ UNCHANGED configVars

ForceSpec == ForceInit /\ [][ForceNext]_vars

(***************************************************************************)
(* The store is unavailable (design document 4.1: unavailability surfaces  *)
(* as an error from each operation).  isOpen() at line 79 is called in the *)
(* request handler with no try around it: the error leaves middleware()    *)
(* before invokeApi, and the router answers the request with the error     *)
(* (status 500).  The promise of incrementFailures() at line 140 is        *)
(* rejected; it has a .then() and no .catch(), the callback never runs.    *)
(***************************************************************************)
\* lines 75-90 when the state read raises: no next(), no patch, no timer
middlewareStoreDown(i, acc) ==
    [acc EXCEPT !.ran = @ \cup {i}, !.thrown = TRUE,
                !.statusCode = ServerError, !.body = "store unavailable"]

\* part_000:176-192 and 170-174 while the store is unavailable
RECURSIVE apiRouterStoreDown(_, _, _)
apiRouterStoreDown(i, reqGroups, acc) ==
    IF i > Len(breakerInfos) THEN [acc EXCEPT !.downstream = TRUE]
    ELSE IF stageApplies(breakerInfos[i], reqGroups)
    THEN middlewareStoreDown(i, acc)
    ELSE apiRouterStoreDown(i + 1, reqGroups, [acc EXCEPT !.nexts = Append(@, i)])

\* a request arrives while the store is unavailable
ArriveStoreDown(r, reqGroups) ==
    /\ \A q \in Reqs : reqs[q].phase = "idle"
    /\ r = 1
    /\ LET acc == apiRouterStoreDown(1, reqGroups,
                     [w |-> World, chain |-> <<>>, timers |-> {}, statusCode |-> 0,
                      body |-> "", downstream |-> FALSE, probe |-> FALSE,
                      ran |-> {}, nexts |-> <<>>, thrown |-> FALSE])
       IN  /\ Commit(acc.w)
           /\ reqs' = [reqs EXCEPT ![r] =
                         IF acc.downstream
                         THEN [phase |-> "inflight", chain |-> <<>>,
                               timers |-> {}, probe |-> FALSE, auth |-> NoAuth]
                         ELSE Idle]
           /\ last' = Observation("arriveStoreDown", r,
                         [reqGroups |-> reqGroups, statusCode |-> acc.statusCode,
                          body |-> acc.body, downstream |-> acc.downstream,
                          ran |-> acc.ran, nexts |-> acc.nexts,
                          thrown |-> acc.thrown], acc.w)
    /\ UNCHANGED <<breakerInfos, authStages>>

\* the store is unavailable when an increment reaches it: the promise is
\* rejected and nothing handles the rejection
IncrementRejected(p) ==
    /\ BagIn(p, promises)
    /\ p.st = "sent"
    /\ promises' = promises (-) SetToBag({p})
    /\ last' = Observation("incrementRejected", 0, [p |-> p], World)
    /\ UNCHANGED <<state, failures, halfOpenCallPending, resetTimers,
                   breakerInfos, reqs, consecutive, authStages>>

FaultInit == BreakerInit(PipelineBreakers) /\ authStages = <<>> /\ ConfigIdle

FaultNext ==
    \/ \E r \in Reqs, reqGroups \in SUBSET GroupNames :
          ArriveStoreDown(r, reqGroups) /\ UNCHANGED configVars
    \/ \E p \in BagToSet(promises) : IncrementRejected(p) /\ UNCHANGED configVars
    \/ \E r \in Reqs, reqGroups \in SUBSET GroupNames :
          PipelineArrive(r, reqGroups) /\ UNCHANGED configVars
    \/ \E r \in Reqs, statusCode \in {StatusBelow500, ServerError} :
          RespondEnd(r, statusCode) /\ UNCHANGED configVars
    \/ \E r \in Reqs, stage \in DOMAIN breakerInfos :
          OperationTimeout(r, stage) /\ UNCHANGED configVars
    \/ \E r \in Reqs, statusCode \in {StatusBelow500, ServerError} :
          LateEnd(r, statusCode) /\ UNCHANGED configVars
    \/ \E p \in BagToSet(promises) : IncrementReply(p) /\ UNCHANGED configVars
    \/ \E p \in BagToSet(promises) : ThenCallback(p) /\ UNCHANGED configVars
    \/ ResetTimeout /\ UNCHANGED configVars

FaultSpec == FaultInit /\ [][FaultNext]_vars

(***************************************************************************)
(* Clients that go away.  The client of a request in flight downstream     *)
(* closes its connection and the response is never ended.  No line of      *)
(* middleware() or invokeApi() (express-circuit-breaker.ts:75-116) listens *)
(* to the connection: the wrappers of res.end and the timers of the        *)
(* request stay as they are.                                               *)
(***************************************************************************)
ClientDisconnect(r) ==
    /\ reqs[r].phase = "inflight"
    /\ reqs[r].auth.index = 0
    /\ Commit(World)
    /\ reqs' = [reqs EXCEPT ![r].phase = "disconnected"]
    /\ last' = Observation("disconnect", r, [chain |-> reqs[r].chain], World)
    /\ UNCHANGED <<breakerInfos, authStages>>

DisconnectNext ==
    \/ Next
    \/ \E r \in Reqs : ClientDisconnect(r) /\ UNCHANGED configVars

DisconnectSpec == Init /\ [][DisconnectNext]_vars

(***************************************************************************)
(* Configuration: the gateway builds the pipeline of every API from its    *)
(* ApiConfig.  The lists of an API are drawn from every list of at most    *)
(* MaxLen entries, each entry group-less or scoped to a group; id is the   *)
(* position of the entry in the list as it was written.                    *)
(***************************************************************************)
Apis == {"a", "b"}

GroupChoices == {Undefined} \cup {GroupOf({g}) : g \in GroupNames}

Shapes == UNION {[1..n -> GroupChoices] : n \in 0..MaxLen}

circuitBreakerOf(shape) ==
    [i \in 1..Len(shape) |-> Entry(i, shape[i], CfgMaxFailures)]

authenticationOf(shape) ==
    [i \in 1..Len(shape) |-> AuthEntry(i, shape[i], "jwt", "")]

ApiConfigs ==
    {[circuitBreaker |-> circuitBreakerOf(shape),
      authentication |-> authenticationOf(shape),
      requestLog |-> logged,
      pipelineAuthentication |-> NoPipelineAuthentication] :
        shape \in Shapes, logged \in BOOLEAN}

NoStages ==
    [done |-> {}, sortedBreakers |-> <<>>, circuitBreaker |-> <<>>,
     sortedMiddlewares |-> <<>>, authentication |-> <<>>]

ConfigInit ==
    /\ BreakerInit({<<>>})
    /\ authStages = <<>>
    /\ apiConfig \in [Apis -> ApiConfigs]
    /\ routers = [a \in Apis |-> NoStages]

\* ApiCircuitBreaker.circuitBreaker(apiRouter, api), part_000:103-132;
\* splice and push of sortBreakers change api.circuitBreaker itself
ConfigureBreaker(a) ==
    /\ "circuitBreaker" \notin routers[a].done
    /\ LET sortedBreakers == sortBreakers(apiConfig[a].circuitBreaker)
       IN  /\ routers' = [routers EXCEPT
                 ![a].done = @ \cup {"circuitBreaker"},
                 ![a].sortedBreakers = sortedBreakers,
                 ![a].circuitBreaker = circuitBreaker(apiConfig[a].circuitBreaker)]
           /\ apiConfig' = [apiConfig EXCEPT ![a].circuitBreaker =
                               IF sortedBreakers = <<>> THEN @ ELSE sortedBreakers]
    /\ UNCHANGED breakerVars

\* _.defaults at line 205 fills the fields of the config object itself: the
\* entries of the list after the forEach of lines 176-199
resolvedInPlace(authentications, pipelineAuthentication) ==
    [i \in 1..Len(authentications) |->
        LET resolved == resolveReferences(authentications[i], pipelineAuthentication)
        IN  IF resolved.thrown THEN authentications[i] ELSE resolved.value]

\* ApiAuth.authentication(apiRouter, apiKey, api, pipelineConfig),
\* express-circuit-breaker.ts:172-200; sortedMiddlewares is the list as
\* sortMiddlewares returned it, before the references are resolved
ConfigureAuth(a) ==
    /\ "authentication" \notin routers[a].done
    /\ LET sortedMiddlewares == sortMiddlewares(apiConfig[a].authentication)
       IN  /\ routers' = [routers EXCEPT
                 ![a].done = @ \cup {"authentication"},
                 ![a].sortedMiddlewares = sortedMiddlewares,
                 ![a].authentication =
                     authentication(a, apiConfig[a].authentication,
                                    apiConfig[a].pipelineAuthentication,
                                    apiConfig[a].requestLog)]
           /\ apiConfig' = [apiConfig EXCEPT ![a].authentication =
                               IF sortedMiddlewares = <<>> THEN @
                               ELSE resolvedInPlace(sortedMiddlewares,
                                        apiConfig[a].pipelineAuthentication)]
    /\ UNCHANGED breakerVars

ConfigNext ==
    \/ \E a \in Apis : ConfigureBreaker(a)
    \/ \E a \in Apis : ConfigureAuth(a)

ConfigSpec == ConfigInit /\ [][ConfigNext]_vars

(***************************************************************************)
(* Configuration of the authentication of one API, with strategies that    *)
(* load, load to nothing ("broken") or make the loader throw ("unknown"),  *)
(* and with `use` references into pipelineConfig.authentication, which is  *)
(* absent or a dictionary with the one id "shared".                        *)
(***************************************************************************)
AuthKinds ==
    {[strategy |-> "jwt", use |-> ""],
     [strategy |-> "broken", use |-> ""],
     [strategy |-> "unknown", use |-> ""],
     [strategy |-> "", use |-> "shared"],
     [strategy |-> "jwt", use |-> "shared"],
     [strategy |-> "jwt", use |-> "missing"]}

AuthShapes ==
    UNION {[1..n -> GroupChoices \X AuthKinds] : n \in 0..MaxLen}

authenticationWith(shape) ==
    [i \in 1..Len(shape) |->
        AuthEntry(i, shape[i][1], shape[i][2].strategy, shape[i][2].use)]

SharedAuthentication(sharedGroup) ==
    [defined |-> TRUE,
     dict |-> [id \in {"shared"} |-> [strategy |-> "jwt", group |-> sharedGroup]]]

PipelineConfigs ==
    {NoPipelineAuthentication} \cup {SharedAuthentication(g) : g \in GroupChoices}

AuthApiConfigs ==
    {[circuitBreaker |-> <<>>,
      authentication |-> authenticationWith(shape),
      requestLog |-> logged,
      pipelineAuthentication |-> pipelineAuthentication] :
        shape \in AuthShapes, logged \in BOOLEAN,
        pipelineAuthentication \in PipelineConfigs}

AuthConfigInit ==
    /\ BreakerInit({<<>>})
    /\ authStages = <<>>
    /\ apiConfig \in [{"a"} -> AuthApiConfigs]
    /\ routers = [a \in {"a"} |-> NoStages]

AuthConfigNext == \E a \in DOMAIN apiConfig : ConfigureAuth(a)

AuthConfigSpec == AuthConfigInit /\ [][AuthConfigNext]_vars

(***************************************************************************)
(* Claims about the breaker at run time.                                   *)
(***************************************************************************)
Range(seq) == {seq[i] : i \in DOMAIN seq}

InFlightProbes == {r \in Reqs : reqs[r].phase = "inflight" /\ reqs[r].probe}

\* C1: a request that reaches a breaker middleware while the breaker is OPEN
\* is answered 503 'CircuitBreaker open', 'rejected' is emitted, the breaker
\* that rejects it does not call next (the downstream handler is not
\* reached), and the breaker is still OPEN afterwards.
C1_OpenFastFails ==
    (last.op = "arrive" /\ last.before = "OPEN" /\ last.x.ran # {})
        => /\ last.x.statusCode = StatusOpen
           /\ last.x.body = "CircuitBreaker open"
           /\ "rejected" \in last.emitted
           /\ ~last.x.downstream
           /\ last.x.ran \cap Range(last.x.nexts) = {}
           /\ reqs[last.r].phase # "inflight"
           /\ state = "OPEN"

C1_Witness ==
    /\ last.op = "arrive" /\ last.before = "OPEN" /\ last.x.ran # {}
    /\ last.x.statusCode = StatusOpen
    /\ state = "OPEN"

\* C2: once a breaker instance has observed maxFailures consecutive failures
\* (no success in between) and the increments are resolved, the breaker is
\* no longer CLOSED (it is OPEN until its resetTimeout elapses); and a
\* failure observed while CLOSED is the failure of a request that was
\* handed downstream, not of one that was fast-failed.
C2_OpensAfterMaxFailures ==
    /\ \A k \in DOMAIN breakerInfos :
          (consecutive[k] >= breakerInfos[k].maxFailures /\ promises = EmptyBag)
              => state \in {"OPEN", "HALF_OPEN"}
    /\ (last.op = "then" /\ last.before = "CLOSED" /\ promises = EmptyBag
          /\ \E k \in DOMAIN breakerInfos :
                consecutive[k] >= breakerInfos[k].maxFailures)
          => (state = "OPEN" /\ "open" \in last.emitted)
    /\ (last.nFailure > 0 /\ last.before = "CLOSED")
          => last.op \in {"end", "timeout"}

C2_Witness ==
    /\ last.op = "then" /\ last.before = "CLOSED" /\ state = "OPEN"
    /\ promises = EmptyBag
    /\ \E k \in DOMAIN breakerInfos :
          consecutive[k] = breakerInfos[k].maxFailures

\* C3: while the breaker is HALF_OPEN at most one request admitted in
\* HALF_OPEN (a probe) is in flight downstream.
C3_SingleProbe ==
    state = "HALF_OPEN" => Cardinality(InFlightProbes) <= 1

\* C4: when the probe of a HALF_OPEN breaker completes with a status below
\* 500 before its timer fires, the breaker is CLOSED, the failure counter is
\* 0, halfOpenCallPending is false and 'close' is emitted.
C4_ProbeSuccessCloses ==
    (last.op = "end" /\ last.x.probe /\ last.before = "HALF_OPEN"
        /\ last.x.statusCode < ServerError)
        => /\ state = "CLOSED"
           /\ failures = 0
           /\ ~halfOpenCallPending
           /\ "close" \in last.emitted

C4_Witness ==
    /\ last.op = "end" /\ last.x.probe /\ last.before = "HALF_OPEN"
    /\ last.x.statusCode = StatusBelow500
    /\ state = "CLOSED"

\* C5: when the failure of the probe of a HALF_OPEN breaker has been counted
\* (the promise of its increment is resolved), the breaker is OPEN.
C5_ProbeFailureOpens ==
    (last.op = "then" /\ last.x.p.probe) => state = "OPEN"

\* C6: when the reset timer of an OPEN breaker fires the breaker becomes
\* HALF_OPEN with halfOpenCallPending false, and the next request that
\* reaches the breaker in HALF_OPEN with no call pending is admitted as the
\* probe and handed downstream: it is not rejected.
C6_NextRequestProbes ==
    /\ (last.op = "reset" /\ last.before = "OPEN")
          => (state = "HALF_OPEN" /\ ~halfOpenCallPending)
    /\ (last.op = "arrive" /\ last.before = "HALF_OPEN" /\ ~last.pendingBefore
          /\ last.x.ran # {})
          => (last.x.probe /\ last.x.downstream)

\* C7: of the timer of a wrapper and the end of the response, the breaker
\* instance observes the first only.  When a timer fires first the client
\* gets 504 'CircuitBreaker timeout' and every instance that forwarded the
\* request records one failure and no success; the later end of the
\* response by the downstream handler records nothing and changes nothing.
\* When the response ends first every instance that forwarded the request
\* records one outcome (a failure for a status of 500 or more, a success
\* otherwise) and no timer of the request stays armed.
C7_FirstOfTimerAndEndWins ==
    /\ last.op = "timeout"
          => /\ last.x.statusCode = StatusTimeout
             /\ last.x.body = "CircuitBreaker timeout"
             /\ last.nFailure = Len(last.x.chain)
             /\ last.nSuccess = 0
    /\ last.op = "lateEnd"
          => /\ last.nFailure = 0 /\ last.nSuccess = 0 /\ last.emitted = {}
             /\ state = last.before
             /\ halfOpenCallPending = last.pendingBefore
    /\ last.op = "end"
          => /\ last.nFailure + last.nSuccess = Len(last.x.chain)
             /\ last.x.statusCode >= ServerError => last.nSuccess = 0
             /\ last.x.statusCode < ServerError => last.nFailure = 0
    /\ \A r \in Reqs : reqs[r].phase # "inflight" => reqs[r].timers = {}

C7_Witness ==
    /\ last.op = "lateEnd"
    /\ Len(breakerInfos) = 1
    /\ \E p \in BagToSet(promises) : p.st = "sent"
    /\ state = "CLOSED"

\* C11: a request whose client disconnected while it was in flight
\* downstream, and whose response never ends, makes the breaker record
\* neither a success nor a failure: no callback of the request counts a
\* failure or a success, changes the state or sends an increment.
C11_DisconnectRecordsNothing ==
    /\ last.op = "disconnect"
          => /\ last.nFailure = 0 /\ last.nSuccess = 0
             /\ state = last.before
    /\ (last.op = "timeout" /\ last.x.phase = "disconnected")
          => /\ last.nFailure = 0 /\ last.nSuccess = 0
             /\ state = last.before

(***************************************************************************)
(* Claims about the configuration.                                         *)
(***************************************************************************)
\* an entry written without a group
IsDefault(value) == ~Truthy(configured(value).group)

DefaultIsLast(list) ==
    \A i \in 1..Len(list) : IsDefault(list[i]) => i = Len(list)

NumDefaults(list) == Cardinality({i \in 1..Len(list) : IsDefault(list[i])})

StageConfigs(stages) == [i \in 1..Len(stages) |-> stages[i].config]

\* C8: in the list sortBreakers returns and in the list sortMiddlewares
\* returns, the group-less entry, if there is one, is the last element, and
\* so is its stage among the stages installed on the router of the API.
C8_DefaultIsLast ==
    \A a \in DOMAIN routers :
        /\ "circuitBreaker" \in routers[a].done
              => /\ DefaultIsLast(routers[a].sortedBreakers)
                 /\ DefaultIsLast(StageConfigs(routers[a].circuitBreaker))
        /\ "authentication" \in routers[a].done
              => /\ DefaultIsLast(routers[a].sortedMiddlewares)
                 /\ DefaultIsLast(StageConfigs(routers[a].authentication))

\* the half of C8 that is about sortMiddlewares
C8_AuthDefaultIsLast ==
    \A a \in DOMAIN routers :
        "authentication" \in routers[a].done
            => /\ DefaultIsLast(routers[a].sortedMiddlewares)
               /\ DefaultIsLast(StageConfigs(routers[a].authentication))

\* C9: for every API, a circuitBreaker list with two or more group-less
\* entries makes sortBreakers return the empty list and installs no breaker
\* stage, and an authentication list with two or more group-less entries
\* makes sortMiddlewares return the empty list and installs no
\* authentication stage.
C9_TwoDefaultsRejected ==
    \A a \in DOMAIN routers :
        /\ ("circuitBreaker" \in routers[a].done
               /\ NumDefaults(apiConfig[a].circuitBreaker) >= 2)
              => /\ routers[a].sortedBreakers = <<>>
                 /\ routers[a].circuitBreaker = <<>>
        /\ ("authentication" \in routers[a].done
               /\ NumDefaults(apiConfig[a].authentication) >= 2)
              => /\ routers[a].sortedMiddlewares = <<>>
                 /\ routers[a].authentication = <<>>

\* the half of C9 that is about sortMiddlewares
C9_AuthTwoDefaultsRejected ==
    \A a \in DOMAIN routers :
        ("authentication" \in routers[a].done
           /\ NumDefaults(apiConfig[a].authentication) >= 2)
          => /\ routers[a].sortedMiddlewares = <<>>
             /\ routers[a].authentication = <<>>

(***************************************************************************)
(* Claims about the stages of the pipeline.                                *)
(***************************************************************************)
\* the breaker stages the request of the last arrival was handed to
Reached(i) == i = 1 \/ (i - 1) \in Range(last.x.nexts)

Occurrences(seq, x) == Cardinality({k \in DOMAIN seq : seq[k] = x})

\* the authentication stages: a stage of an entry with a group runs its
\* authenticator iff the filter of the group accepts the request, a bypassed
\* request gets next() once and nothing else, a stage of an entry without a
\* group runs for every request
C10_AuthGate ==
    last.op = "auth"
        => LET config == authStages[last.x.index].config
           IN  IF Truthy(config.group)
               THEN /\ last.x.ran
                        <=> buildGroupAllowFilter(config.group.names,
                                                  last.x.reqGroups)
                    /\ ~last.x.ran
                        => /\ last.x.nexts = 1 /\ ~last.x.err /\ ~last.x.ended
                           /\ last.x.log = last.x.logBefore
                           /\ state = last.before
                           /\ halfOpenCallPending = last.pendingBefore
                           /\ last.emitted = {}
                           /\ last.nFailure = 0 /\ last.nSuccess = 0
               ELSE last.x.ran

\* the breaker stages, likewise: a bypassing stage calls next() once, does
\* not patch res.end and arms no timer
C10_BreakerGate ==
    last.op = "arrive"
        => /\ \A i \in DOMAIN breakerInfos :
                 Reached(i)
                   => LET config == configured(breakerInfos[i].config)
                      IN  IF Truthy(config.group)
                          THEN /\ i \in last.x.ran
                                   <=> buildGroupAllowFilter(config.group.names,
                                                             last.x.reqGroups)
                               /\ i \notin last.x.ran
                                   => /\ Occurrences(last.x.nexts, i) = 1
                                      /\ i \notin Range(last.x.chain)
                          ELSE i \in last.x.ran
           /\ last.x.ran = {}
                 => /\ state = last.before
                    /\ halfOpenCallPending = last.pendingBefore
                    /\ last.emitted = {}
                    /\ last.nFailure = 0 /\ last.nSuccess = 0

\* C10: for every request and every stage of an entry with a group, breaker
\* or authenticator, the handler of the stage runs iff the group filter
\* accepts the request; a bypassing stage calls next() once and touches
\* neither the request, the response nor the breaker; the stage of an entry
\* without a group runs for every request.
C10_GroupGate == C10_BreakerGate /\ C10_AuthGate

(***************************************************************************)
(* Claims about the transitions of the breaker.                            *)
(***************************************************************************)
\* C12: 'close' is emitted only by a callback that changes the state of the
\* breaker to CLOSED, and once: a callback that starts in CLOSED emits no
\* 'close', whatever number of successes it records.
C12_CloseOnlyOnChange ==
    /\ "close" \in last.emitted
          => (last.before # "CLOSED" /\ state = "CLOSED")
    /\ Occurrences(last.events, "close") <= 1
    /\ (last.nSuccess > 0 /\ last.before = "CLOSED")
          => (last.emitted = {} /\ state = "CLOSED")

C12_Witness ==
    /\ last.op = "end" /\ last.before = "CLOSED" /\ last.nSuccess > 0
    /\ last.emitted = {}
    /\ failures = 0

\* C13: forceOpen on an OPEN breaker, forceClosed on a CLOSED one and
\* forceHalfOpen on a HALF_OPEN one leave the state as it is, emit no event
\* and arm no timer; and every callback arms one reset timer when it moves
\* the breaker into OPEN and none otherwise.
C13_ForceIdempotent ==
    /\ (last.op = "forceOpen" /\ last.before = "OPEN")
          => /\ state = "OPEN" /\ last.events = <<>>
             /\ resetTimers = last.timersBefore
             /\ halfOpenCallPending = last.pendingBefore
    /\ (last.op = "forceClosed" /\ last.before = "CLOSED")
          => /\ state = "CLOSED" /\ last.events = <<>>
             /\ resetTimers = last.timersBefore
             /\ halfOpenCallPending = last.pendingBefore
    /\ (last.op = "forceHalfOpen" /\ last.before = "HALF_OPEN")
          => /\ state = "HALF_OPEN" /\ last.events = <<>>
             /\ resetTimers = last.timersBefore
             /\ halfOpenCallPending = last.pendingBefore
    /\ last.op \notin {"init", "reset"}
          => resetTimers - last.timersBefore =
                (IF last.before # "OPEN" /\ state = "OPEN" THEN 1 ELSE 0)
    /\ Occurrences(last.events, "open") <= 1

C13_Witness ==
    /\ last.op = "forceOpen" /\ last.before = "OPEN"
    /\ resetTimers = 1
    /\ last.events = <<>>


\* C14: when an operation of the store fails while a request is handled the
\* breaker fails open: a request that arrives while the state cannot be
\* read is handed to the downstream handler and gets no error response,
\* and a failed increment of the failure counter changes nothing for the
\* breaker or the request.
C14_FailsOpen ==
    /\ last.op = "arriveStoreDown"
          => /\ last.x.downstream
             /\ ~last.x.thrown
             /\ last.x.statusCode = 0
    /\ last.op = "incrementRejected"
          => /\ state = last.before
             /\ failures = last.failuresBefore
             /\ last.events = <<>>

\* the half of C14 that is about the increment
C14_IncrementFailsOpen ==
    last.op = "incrementRejected"
        => /\ state = last.before
           /\ failures = last.failuresBefore
           /\ last.events = <<>>


\* C15: a callback moves the breaker from CLOSED to OPEN only when the
\* instance has observed at least maxFailures failures since the last
\* success, and a success observed in CLOSED leaves the failure counter at 0.
C15_OpensOnlyAfterMaxFailures ==
    /\ (last.op = "then" /\ last.before = "CLOSED" /\ state = "OPEN")
          => consecutive[last.x.p.stage]
                >= breakerInfos[last.x.p.stage].maxFailures
    /\ (last.op = "end" /\ last.before = "CLOSED" /\ last.nSuccess > 0)
          => failures = 0

\* the half of C15 that is about the success: it clears the counter
C15_SuccessClearsCounter ==
    (last.op = "end" /\ last.before = "CLOSED" /\ last.nSuccess > 0)
        => failures = 0

\* a stale count opens the breaker: the increments were answered before a
\* success cleared the counter, the callback runs after it
C15_StaleCountOpens ==
    /\ last.op = "then" /\ last.before = "CLOSED" /\ state = "OPEN"
    /\ Len(breakerInfos) = 1
    /\ consecutive[1] = 0
    /\ last.failuresBefore = 0


(***************************************************************************)
(* Claims about the assembly of the authentication stages.                 *)
(***************************************************************************)
\* the entry at position i of the sorted list can be installed: its
\* reference, if any, resolves and its strategy loads
Installable(authentications, pipelineAuthentication, i) ==
    LET resolved == resolveReferences(authentications[i], pipelineAuthentication)
    IN  ~resolved.thrown /\ loadMiddleware(resolved.value.strategy).loaded

\* C16: an entry whose strategy loads to nothing or makes the loader throw
\* is skipped alone: the entries of the sorted list that can be installed
\* are all installed, in the order of the list, each under the key of the
\* API and of its index in the sorted list, and no two stages of the API
\* have the same key.
C16_LoadFailureSkipsOneEntry ==
    \A a \in DOMAIN routers :
        "authentication" \in routers[a].done
          => LET sorted == routers[a].sortedMiddlewares
                 stages == routers[a].authentication
             IN  /\ \A i \in 1..Len(sorted) :
                        Installable(sorted, apiConfig[a].pipelineAuthentication, i)
                          <=> \E k \in 1..Len(stages) :
                                 /\ stages[k].key = <<a, i - 1>>
                                 /\ stages[k].config.id = sorted[i].id
                 /\ \A k \in 1..Len(stages) :
                        /\ stages[k].key[1] = a
                        /\ \A m \in (k + 1)..Len(stages) :
                               stages[k].key[2] < stages[m].key[2]

C16_Witness ==
    \E a \in DOMAIN routers :
        /\ "authentication" \in routers[a].done
        /\ Len(routers[a].sortedMiddlewares) = 3
        /\ routers[a].sortedMiddlewares[1].strategy = "unknown"
        /\ routers[a].sortedMiddlewares[2].strategy = "broken"
        /\ Len(routers[a].authentication) = 1
        /\ routers[a].authentication[1].key = <<a, 2>>


\* the reference of the entry names an entry of the pipeline dictionary
Resolves(entry, pipelineAuthentication) ==
    /\ pipelineAuthentication.defined
    /\ entry.use \in DOMAIN pipelineAuthentication.dict

\* what C17 says of the entry at position i of the sorted list of API a
UseIsResolvedOrFatal(a, i) ==
    LET entry == routers[a].sortedMiddlewares[i]
        pipelineAuthentication == apiConfig[a].pipelineAuthentication
        after == apiConfig[a].authentication[i]
    IN  entry.use # ""
          => IF Resolves(entry, pipelineAuthentication)
             THEN LET reference == pipelineAuthentication.dict[entry.use]
                  IN  /\ after.id = entry.id /\ after.use = entry.use
                      /\ after.strategy = (IF entry.strategy # "" THEN entry.strategy
                                           ELSE reference.strategy)
                      /\ after.group = (IF entry.group.defined THEN entry.group
                                        ELSE reference.group)
             ELSE /\ resolveReferences(entry, pipelineAuthentication).thrown
                  /\ \A k \in 1..Len(routers[a].authentication) :
                         routers[a].authentication[k].key # <<a, i - 1>>

\* C17: an entry whose `use` names no entry of the pipeline dictionary,
\* or that has a `use` while there is no pipeline dictionary, makes the
\* resolution raise an error and gets no authenticator; an entry whose
\* `use` resolves keeps its own fields and gets the missing ones from the
\* entry it names.
C17_UnresolvedUseIsFatal ==
    \A a \in DOMAIN routers :
        "authentication" \in routers[a].done
          => \A i \in 1..Len(routers[a].sortedMiddlewares) :
                UseIsResolvedOrFatal(a, i)

\* C17 for the APIs of a pipeline config that has an authentication
\* dictionary
C17_WithDictionary ==
    \A a \in DOMAIN routers :
        ("authentication" \in routers[a].done
           /\ apiConfig[a].pipelineAuthentication.defined)
          => \A i \in 1..Len(routers[a].sortedMiddlewares) :
                UseIsResolvedOrFatal(a, i)


\* C18: a step that starts with the breaker OPEN leaves it OPEN, or moves
\* it to HALF_OPEN when it is the firing of the reset timer; it never
\* leaves it CLOSED. The response of a request admitted before the
\* breaker opened, ending with a status below 500, is such a step.
C18_OpenLeavesOnlyToHalfOpen ==
    last.before = "OPEN"
      => /\ state # "CLOSED"
         /\ state = "HALF_OPEN" => last.op = "reset"

\* the response of a request admitted before the single breaker stage
\* opened ends with a status below 500 and closes the OPEN breaker
C18_LateSuccessCloses ==
    /\ last.op = "end" /\ last.x.statusCode = StatusBelow500
    /\ Len(breakerInfos) = 1
    /\ last.before = "OPEN" /\ state = "CLOSED"
    /\ "close" \in last.emitted


\* C18, second half alone: out of OPEN the breaker gets to HALF_OPEN only
\* by the firing of the reset timer
C18_HalfOpenByTimerOnly ==
    (last.before = "OPEN" /\ state = "HALF_OPEN") => last.op = "reset"

\* C19: a step that enters HALF_OPEN starts with the breaker OPEN; and
\* the firing of a reset timer while the timer of a later open
\* transition is still pending (timers of equal delay fire in the order
\* they were armed, so the one that fires belongs to an earlier open
\* period) leaves an OPEN breaker OPEN.
C19_HalfOpenOnlyFromOpen ==
    /\ (state = "HALF_OPEN" /\ last.before # "HALF_OPEN")
          => last.before = "OPEN"
    /\ (last.op = "reset" /\ last.before = "OPEN" /\ last.timersBefore > 1)
          => state = "OPEN"

\* the reset timer of an earlier open period fires on a breaker that is
\* CLOSED again and moves it to HALF_OPEN
C19_StaleTimerFromClosed ==
    /\ last.op = "reset" /\ last.before = "CLOSED"
    /\ state = "HALF_OPEN" /\ "halfOpen" \in last.emitted

\* the reset timer of an earlier open period fires on a breaker that
\* re-opened and moves it to HALF_OPEN
C19_StaleTimerFromReopened ==
    /\ last.op = "reset" /\ last.before = "OPEN" /\ last.timersBefore > 1
    /\ state = "HALF_OPEN"


\* C20: the response of a request that went through more than one
\* breaker stage records one outcome when it ends (one increment sent for
\* a status of 500 or more, one success below 500), and a request that
\* a stage admitted as the probe of the HALF_OPEN breaker reaches the
\* downstream handler through the later stages.
C20_OneOutcomePerRequest ==
    /\ (last.op = "end" /\ Len(last.x.chain) > 1)
          => IF last.x.statusCode >= ServerError
             THEN last.nFailure = 1 /\ last.nSuccess = 0
             ELSE last.nFailure = 0 /\ last.nSuccess = 1
    /\ (last.op = "arrive" /\ last.x.probe /\ Cardinality(last.x.ran) > 1)
          => last.x.downstream

\* the response of a request that went through two breaker stages ends
\* with status 500 and two increments are sent to the store
C20_FailureCountedTwice ==
    /\ last.op = "end" /\ Len(last.x.chain) = 2
    /\ last.x.statusCode = ServerError
    /\ last.nFailure = 2

\* the second stage fast-fails the request that the first stage has just
\* admitted as the probe
C20_ProbeFastFailed ==
    /\ last.op = "arrive" /\ last.x.probe /\ Cardinality(last.x.ran) = 2
    /\ ~last.x.downstream /\ last.x.statusCode = StatusOpen

\* C20 for the requests that went through one breaker stage
C20_OneStageOneOutcome ==
    (last.op = "end" /\ Len(last.x.chain) = 1)
      => IF last.x.statusCode >= ServerError
         THEN last.nFailure = 1 /\ last.nSuccess = 0
         ELSE last.nFailure = 0 /\ last.nSuccess = 1


\* an entry written with a group
IsScoped(value) == ~IsDefault(value)

\* `sorted` holds every entry of `list` once and unchanged (the entries of
\* a list differ by their id), and the entries with a group in the order
\* they have in `list`
IsReordering(sorted, list) ==
    /\ Len(sorted) = Len(list)
    /\ \A i \in 1..Len(list) : Occurrences(sorted, list[i]) = 1
    /\ SelectSeq(sorted, IsScoped) = SelectSeq(list, IsScoped)

\* the step sorts the circuitBreaker list of API a
SortsBreakers(a) ==
    /\ "circuitBreaker" \notin routers[a].done
    /\ "circuitBreaker" \in routers'[a].done

\* the step sorts the authentication list of API a
SortsMiddlewares(a) ==
    /\ "authentication" \notin routers[a].done
    /\ "authentication" \in routers'[a].done

\* C21: every step that sorts a circuitBreaker list or an authentication
\* list with at most one group-less entry returns a list that holds every
\* entry of the list as it was before the step exactly once and unchanged,
\* with the group-scoped entries in their order, however many
\* group-scoped entries there are.
C21_SortIsPermutation ==
    [][\A a \in DOMAIN routers :
          /\ (SortsBreakers(a) /\ NumDefaults(apiConfig[a].circuitBreaker) <= 1)
                => IsReordering(routers'[a].sortedBreakers,
                                apiConfig[a].circuitBreaker)
          /\ (SortsMiddlewares(a) /\ NumDefaults(apiConfig[a].authentication) <= 1)
                => IsReordering(routers'[a].sortedMiddlewares,
                                apiConfig[a].authentication)]_vars

\* the half of C21 that is about sortMiddlewares
C21_AuthSortIsPermutation ==
    [][\A a \in DOMAIN routers :
          (SortsMiddlewares(a) /\ NumDefaults(apiConfig[a].authentication) <= 1)
            => IsReordering(routers'[a].sortedMiddlewares,
                            apiConfig[a].authentication)]_vars

\* sortBreakers has returned the empty list for a list of two or more
\* entries that all have a group (the list is left as it was)
C21_ScopedEntriesRejected ==
    \E a \in DOMAIN routers :
        /\ "circuitBreaker" \in routers[a].done
        /\ NumDefaults(apiConfig[a].circuitBreaker) = 0
        /\ Len(apiConfig[a].circuitBreaker) >= 2
        /\ routers[a].sortedBreakers = <<>>
        /\ routers[a].circuitBreaker = <<>>

\* sortBreakers has returned a list whose last element is not a config
\* entry but the array that splice removed
C21_EntryReplacedByArray ==
    \E a \in DOMAIN routers :
        /\ "circuitBreaker" \in routers[a].done
        /\ Len(routers[a].sortedBreakers) >= 2
        /\ routers[a].sortedBreakers[Len(routers[a].sortedBreakers)].isArray

\* sortMiddlewares has moved the group-less entry of a list of three
\* entries from the front to the end
C21_AuthDefaultMoved ==
    \E a \in DOMAIN routers :
        /\ "authentication" \in routers[a].done
        /\ Len(routers[a].sortedMiddlewares) = MaxLen
        /\ IsDefault(routers[a].sortedMiddlewares[MaxLen])
        /\ routers[a].sortedMiddlewares[MaxLen].id = 1

=============================================================================
